---- MODULE Spec2Model ----
(***************************************************************************)
(* Model of the local TTS engine lifecycle manager (src/src/tts-manager.ts) *)
(* and of the IPC handlers of src/src/main.ts that drive it.               *)
(*                                                                         *)
(* The host is a single-threaded event loop: every action below is one     *)
(* synchronous run of code between two suspension points (await, timer,    *)
(* event).  Time is counted in ticks of one second; timers fire when their *)
(* remaining time reaches 0 and time does not advance while a timer is due *)
(* or a child-process event is waiting to be delivered.                    *)
(***************************************************************************)
EXTENDS Integers, FiniteSets, Sequences, TLC

\* ------------------------------------------------------------------------
\* Bounds of the model
\* ------------------------------------------------------------------------
MaxStarts == 2          \* number of startEngine calls issued
MaxStops == 1           \* number of stop() calls issued by IPC callers
MaxExternalStarts == 1  \* times a server is started outside the manager
MaxVoices == 2          \* voices a GET /voices answer lists
HealthTimeoutTicks == 4 \* HEALTH_CHECK_TIMEOUT_MS, scaled down from 120 s
MaxSpeaks == 2          \* speak calls whose POST is answered
MaxClock == 2           \* milliseconds Date.now() advances
MaxSyncs == 2           \* performAssetSync calls, one after the other
MaxAssets == 2          \* entries of a manifest's asset list
MaxChecks == 2          \* autoUpdater.checkForUpdates calls

\* ------------------------------------------------------------------------
\* Program constants (seconds)
\* ------------------------------------------------------------------------
HEALTH_CHECK_INTERVAL_S == 3
StopWaitS == 2
PortSweepDelayS == 1
SigkillDelayS == 3
ChatterboxPort == 4123
DefaultVoice == "default"

Engines == {"chatterbox"}
NoEngine == "null"
NoProcess == 0
Platforms == {"win32", "posix"}
Pids == 1..MaxStarts
Calls == 1..MaxStarts

EnginePort(e) == ChatterboxPort
KnownPorts == {EnginePort(e) : e \in Engines}

VARIABLES
  platform,        \* process.platform, fixed for a run
  installed,       \* fs.existsSync(binaryPath), fixed for a run
  currentProcess,  \* pid of the tracked ChildProcess, NoProcess for null
  currentEngine,   \* tracked engine id, NoEngine for null
  isServerReady,
  proc,            \* the children spawned by the manager, by pid
  external,        \* a server on the engine port the manager did not spawn
  call,            \* the startEngine calls, by call id
  sweepTimers,     \* remaining seconds of the armed kill-by-port timers
  sigkillTimers,   \* remaining seconds of the armed SIGKILL timers
  stops,           \* stop() calls made by IPC callers
  extStarts,       \* external server starts so far
  dialogs,         \* dialog.showErrorBox calls so far
  speak,           \* the last speak call and its outcome
  query,           \* the last status, config or voices call and its result
  app,             \* the application: "running", or "quit" after will-quit
  now,             \* Date.now(), in milliseconds since the model's start
  tempFiles,       \* the files of app.getPath('temp'): name -> content
  speakCalls,      \* the speak calls whose POST has been sent, by call id
  cachedVersion,   \* localStorage item 'assetPackVersion' of the window
  sync,            \* the performAssetSync call: position, locals, callbacks
  syncs,           \* performAssetSync calls made so far
  updater          \* electron-updater and the dialogs of updater.ts

\* the state of the engine manager and of the handlers that drive it
managerVars ==
  <<platform, installed, currentProcess, currentEngine, isServerReady,
    proc, external, call, sweepTimers, sigkillTimers, stops, extStarts,
    dialogs, speak, query, app>>

\* the state of the rest of the shell: audio files, asset sync, updater
audioVars == <<now, tempFiles, speakCalls>>
syncVars == <<cachedVersion, sync, syncs>>
shellVars == <<audioVars, syncVars, updater>>

vars == <<managerVars, shellVars>>

NoProc == [st |-> "unborn", srv |-> "down", killed |-> FALSE, term |-> FALSE,
           code |-> "none", byStop |-> FALSE]
IdleCall == [pc |-> "idle", engine |-> NoEngine, timer |-> 0, elapsed |-> 0,
             result |-> "none", stopped |-> NoProcess]
NoSpeak == [channel |-> "none", text |-> "", voice |-> "", rejected |-> FALSE,
            outcome |-> "none", error |-> "none", probes |-> 0, posts |-> 0,
            body |-> [k \in {} |-> ""]]
NoQuery == [channel |-> "none", rejected |-> FALSE,
            asked |-> [kind |-> "none", shape |-> "absent", voices |-> << >>],
            probe |-> [kind |-> "none", status |-> "absent",
                       model_loaded |-> FALSE],
            result |-> [none |-> TRUE]]

\* speak calls in flight and the audio files they write
SpeakCalls == 1..MaxSpeaks
SpeakChannels == {"tts:speak", "orpheus:speak"}
AudioBytes == {"wavA", "wavB"}
NoUrl == << >>
NoFiles == [n \in {} |-> "none"]
NoSpeakCall == [pc |-> "idle", channel |-> "none", bytes |-> "none",
                result |-> [success |-> FALSE, audioUrl |-> NoUrl]]

\* asset manifests (asset-sync-manager.ts): two pack versions, a list of at
\* most MaxAssets entries, and a list of required ids that may name entries
\* the asset list does not have
NoVersion == "null"
Versions == {"v1", "v2"}
AssetA == [id |-> "a", size |-> 1]
AssetB == [id |-> "b", size |-> 2]
AssetLists == {s \in {<< >>, <<AssetA>>, <<AssetB, AssetA>>} : Len(s) <= MaxAssets}
NoManifest == [assetPackVersion |-> NoVersion, required |-> {}, assets |-> << >>]
Manifests ==
  [assetPackVersion : Versions, required : SUBSET {"a", "b"}, assets : AssetLists]
NoResult == [success |-> FALSE, downloaded |-> 0, failed |-> 0, skipped |-> FALSE]
NoSync ==
  [pc |-> "idle", manifest |-> NoManifest, fetched |-> FALSE, i |-> 0,
   downloadedBytes |-> 0, completed |-> 0, failed |-> 0, outcomes |-> << >>,
   before |-> NoVersion, saved |-> FALSE,
   statuses |-> << >>, progress |-> << >>, result |-> NoResult]

\* the updater (updater.ts): checks made, the phase of each check's update
\* (by check id), dialogs shown and answered, and calls into the library
NoUpdater ==
  [checks |-> 0, checking |-> {}, offered |-> 0, availableOpen |-> 0,
   downloadChosen |-> 0, downloadsStarted |-> 0, downloading |-> 0,
   downloadsDone |-> 0, readyShown |-> 0, readyOpen |-> 0,
   restartChosen |-> 0, quitAndInstall |-> 0]

\* the mutable state the manager's functions read and write, as one value
Mgr ==
  [cp |-> currentProcess, ce |-> currentEngine, ready |-> isServerReady,
   proc |-> proc, ext |-> external, sweep |-> sweepTimers,
   sigkill |-> sigkillTimers, dialogs |-> dialogs]

Commit(s) ==
  /\ currentProcess' = s.cp
  /\ currentEngine' = s.ce
  /\ isServerReady' = s.ready
  /\ proc' = s.proc
  /\ external' = s.ext
  /\ sweepTimers' = s.sweep
  /\ sigkillTimers' = s.sigkill
  /\ dialogs' = s.dialogs

\* ------------------------------------------------------------------------
\* OS processes
\* ------------------------------------------------------------------------
Alive(r) == r.st = "alive"

\* the process ends; its 'exit' event is delivered later by the event loop
\* (signals to a dead process have no effect: its signal flags are dropped)
\* byStop: the process had been signalled by stopCurrentEngine
Dead(r, code) ==
  [st |-> "exiting", srv |-> "down", killed |-> FALSE, term |-> FALSE,
   code |-> code, byStop |-> r.killed]

\* a child whose 'exit' event has been delivered
Gone == [st |-> "gone", srv |-> "down", killed |-> FALSE, term |-> FALSE,
         code |-> "none", byStop |-> FALSE]

\* exit code Node reports for a forced kill: taskkill /F ends the process
\* with code 1, kill -9 ends it by signal (code null)
ForcedCode == IF platform = "win32" THEN "nonzero" ELSE "null"

\* state of whatever server listens on the engine port
Listener(pr, ext) ==
  IF \E p \in Pids : Alive(pr[p]) /\ pr[p].srv # "down"
  THEN LET p == CHOOSE q \in Pids : Alive(pr[q]) /\ pr[q].srv # "down"
       IN pr[p].srv
  ELSE ext

PortFree(pr, ext) == Listener(pr, ext) = "down"

\* response.ok values a GET /health can produce for a listener state
HealthOkOutcomes(l) ==
  IF l = "healthy" THEN {TRUE}
  ELSE IF l = "unready" THEN {TRUE, FALSE}
  ELSE {FALSE}

\* ------------------------------------------------------------------------
\* Process cleanup (tts-manager.ts, "Process Cleanup")
\* ------------------------------------------------------------------------

\* killProcessOnPort: taskkill /F (win32) or kill -9 (posix) of every process
\* listening on the port
\* variant: the port cleanup ends only children of this manager
killProcessOnPort_OwnChildren(s, port) ==
  IF port \notin KnownPorts THEN s
  ELSE [s EXCEPT
         !.proc = [p \in Pids |->
                     IF Alive(s.proc[p]) /\ s.proc[p].srv # "down"
                     THEN Dead(s.proc[p], ForcedCode) ELSE s.proc[p]]]

killProcessOnPort(s, port) ==
  IF port \notin KnownPorts THEN s
  ELSE [s EXCEPT
         !.proc = [p \in Pids |->
                     IF Alive(s.proc[p]) /\ s.proc[p].srv # "down"
                     THEN Dead(s.proc[p], ForcedCode) ELSE s.proc[p]],
         !.ext = "down"]

\* kill by binary name: taskkill /F /IM ends every match at once; pkill -f
\* sends SIGTERM, which a process acts on later
KillByName(s) ==
  IF platform = "win32"
  THEN [s EXCEPT
         !.proc = [p \in Pids |->
                     IF Alive(s.proc[p]) THEN Dead(s.proc[p], "nonzero")
                     ELSE s.proc[p]],
         !.ext = "down"]
  ELSE [s EXCEPT
         !.proc = [p \in Pids |->
                     IF Alive(s.proc[p]) THEN [s.proc[p] EXCEPT !.term = TRUE]
                     ELSE s.proc[p]]]

\* variant: kill by binary name only, without the port cleanup
cleanupOrphanProcesses_NameOnly(s, engine) == KillByName(s)

\* cleanupOrphanProcesses: kill by binary name, then kill by port
cleanupOrphanProcesses(s, engine) ==
  killProcessOnPort(KillByName(s), EnginePort(engine))

\* ------------------------------------------------------------------------
\* Engine lifecycle
\* ------------------------------------------------------------------------

\* the platform branch of stopCurrentEngine for a tracked process with a pid
TerminateTracked(s) ==
  LET p == s.cp IN
  IF platform = "win32"
  THEN \* taskkill /F /T /PID, synchronous
       [s EXCEPT !.proc[p] = IF Alive(@)
                             THEN [Dead(@, "nonzero") EXCEPT !.byStop = TRUE]
                             ELSE @]
  ELSE \* currentProcess.kill('SIGTERM') and the 3 s SIGKILL timer
       [s EXCEPT !.proc[p] = IF Alive(@)
                             THEN [@ EXCEPT !.term = TRUE, !.killed = TRUE]
                             ELSE @,
                 !.sigkill = @ \cup {SigkillDelayS}]

\* variant: nothing is swept when no process is tracked
stopCurrentEngine_NoFailsafe(s) ==
  IF s.cp = NoProcess
  THEN s
  ELSE LET s1 == [s EXCEPT !.ready = FALSE]
           s2 == TerminateTracked(s1)
           s3 == IF s.ce # NoEngine
                 THEN [s2 EXCEPT !.sweep = @ \cup {PortSweepDelayS}]
                 ELSE s2
       IN [s3 EXCEPT !.cp = NoProcess, !.ce = NoEngine]

stopCurrentEngine(s) ==
  IF s.cp = NoProcess
  THEN \* no engine running: sweep the port of every known engine
       killProcessOnPort(s, ChatterboxPort)
  ELSE LET s1 == [s EXCEPT !.ready = FALSE]
           s2 == TerminateTracked(s1)
           s3 == IF s.ce # NoEngine
                 THEN [s2 EXCEPT !.sweep = @ \cup {PortSweepDelayS}]
                 ELSE s2
       IN [s3 EXCEPT !.cp = NoProcess, !.ce = NoEngine]

\* OnExit with the error box raised for every exit code but 0
OnExit_NotifyOnNull(s, code) ==
  [s EXCEPT !.cp = NoProcess, !.ce = NoEngine, !.ready = FALSE,
            !.dialogs = IF code # "zero" THEN @ + 1 ELSE @]

\* the handler startEngine registers for 'exit' on the child it spawned
OnExit(s, code) ==
  [s EXCEPT !.cp = NoProcess, !.ce = NoEngine, !.ready = FALSE,
            !.dialogs = IF code # "zero" /\ code # "null" THEN @ + 1 ELSE @]

\* variant: the 'error' handler forgets the process and keeps the engine id
OnError_KeepsEngine(s) ==
  [s EXCEPT !.cp = NoProcess, !.ready = FALSE, !.dialogs = @ + 1]

\* the handler startEngine registers for 'error' on the child it spawned
OnError(s) ==
  [s EXCEPT !.cp = NoProcess, !.ce = NoEngine, !.ready = FALSE,
            !.dialogs = @ + 1]

\* StartBody with the binary check made after the spawn
StartBody_SpawnBeforeCheck(c, engine, s0) ==
  LET s == cleanupOrphanProcesses(s0, engine)
      spawned == [s EXCEPT !.proc[c] = [NoProc EXCEPT !.st = "alive"],
                           !.cp = c, !.ce = engine]
  IN /\ Commit(spawned)
     /\ call' = IF ~installed
                THEN [call EXCEPT ![c].pc = "rejected", ![c].engine = engine,
                                  ![c].result = "notfound"]
                ELSE [call EXCEPT ![c].pc = "healthFetch",
                                  ![c].engine = engine, ![c].elapsed = 0]

\* startEngine from cleanupOrphanProcesses to the first health fetch: one
\* synchronous run.  A failed spawn emits 'error' on the next tick, before
\* any other callback runs, so its handler is part of this run.
StartBody(c, engine, s0) ==
  LET s == cleanupOrphanProcesses(s0, engine) IN
  IF ~installed
  THEN /\ Commit(s)
       /\ call' = [call EXCEPT ![c].pc = "rejected", ![c].engine = engine,
                               ![c].result = "notfound"]
  ELSE \E outcome \in {"ok", "error"} :
         LET spawned == [s EXCEPT
                           !.proc[c] = [NoProc EXCEPT
                              !.st = IF outcome = "ok" THEN "alive"
                                     ELSE "failed"],
                           !.cp = c, !.ce = engine]
         IN /\ Commit(IF outcome = "ok" THEN spawned ELSE OnError(spawned))
            /\ call' = [call EXCEPT ![c].pc = "healthFetch",
                                    ![c].engine = engine, ![c].elapsed = 0]

\* startEngine is called: stop the tracked engine and wait 2 s, or go on
StartEngine(c, engine) ==
  /\ call[c].pc = "idle"
  /\ IF c = 1 THEN TRUE ELSE call[c - 1].pc # "idle"
  /\ IF currentProcess # NoProcess
     THEN /\ Commit(stopCurrentEngine(Mgr))
          /\ call' = [call EXCEPT ![c].pc = "wait", ![c].engine = engine,
                                  ![c].timer = StopWaitS,
                                  ![c].stopped = currentProcess]
     ELSE StartBody(c, engine, Mgr)
  /\ UNCHANGED <<platform, installed, stops, extStarts, speak,
                 query, app>>
  /\ UNCHANGED shellVars

\* the 2 s wait of startEngine is over
StartResume(c) ==
  /\ call[c].pc = "wait"
  /\ call[c].timer = 0
  /\ StartBody(c, call[c].engine, Mgr)
  /\ UNCHANGED <<platform, installed, stops, extStarts, speak,
                 query, app>>
  /\ UNCHANGED shellVars

\* waitForHealth: the pending GET /health completes
HealthFetchDone(c) ==
  /\ call[c].pc = "healthFetch"
  /\ \E ok \in HealthOkOutcomes(Listener(proc, external)) :
       IF ok
       THEN /\ isServerReady' = TRUE
            /\ call' = [call EXCEPT ![c].pc = "voices", ![c].elapsed = 0]
       ELSE /\ isServerReady' = isServerReady
            /\ call' = [call EXCEPT ![c].pc = "healthSleep",
                                    ![c].timer = HEALTH_CHECK_INTERVAL_S]
  /\ UNCHANGED <<platform, installed, currentProcess, currentEngine, proc,
                 external, sweepTimers, sigkillTimers, stops, extStarts,
                 dialogs, speak, query, app>>
  /\ UNCHANGED shellVars

\* variant: the first failed attempt ends the polling
HealthSleepDone_GiveUp(c) ==
  /\ call[c].pc = "healthSleep"
  /\ call[c].timer = 0
  /\ Commit(stopCurrentEngine(Mgr))
  /\ call' = [call EXCEPT ![c].pc = "rejected", ![c].elapsed = 0,
                          ![c].result = "timeout"]
  /\ UNCHANGED <<platform, installed, stops, extStarts, speak,
                 query, app>>
  /\ UNCHANGED shellVars

\* waitForHealth: the 3 s sleep is over; poll again or give up
HealthSleepDone(c) ==
  /\ call[c].pc = "healthSleep"
  /\ call[c].timer = 0
  /\ IF call[c].elapsed < HealthTimeoutTicks
     THEN /\ call' = [call EXCEPT ![c].pc = "healthFetch"]
          /\ UNCHANGED <<currentProcess, currentEngine, isServerReady, proc,
                         external, sweepTimers, sigkillTimers, dialogs>>
     ELSE /\ Commit(stopCurrentEngine(Mgr))
          /\ call' = [call EXCEPT ![c].pc = "rejected", ![c].elapsed = 0,
                                  ![c].result = "timeout"]
  /\ UNCHANGED <<platform, installed, stops, extStarts, speak,
                 query, app>>
  /\ UNCHANGED shellVars

\* fetchVoices returned: startEngine resolves with the LocalTTSConfig
VoicesDone(c) ==
  /\ call[c].pc = "voices"
  /\ call' = [call EXCEPT ![c].pc = "resolved", ![c].result = "config"]
  /\ UNCHANGED <<platform, installed, currentProcess, currentEngine,
                 isServerReady, proc, external, sweepTimers, sigkillTimers,
                 stops, extStarts, dialogs, speak, query, app>>
  /\ UNCHANGED shellVars

\* ipcMain.handle('tts:stop') / ('orpheus:stop')
Stop ==
  /\ stops < MaxStops
  /\ stops' = stops + 1
  /\ Commit(stopCurrentEngine(Mgr))
  /\ UNCHANGED <<platform, installed, call, extStarts, speak, query, app>>
  /\ UNCHANGED shellVars

\* ------------------------------------------------------------------------
\* Timers armed by stopCurrentEngine
\* ------------------------------------------------------------------------

\* setTimeout(() => killProcessOnPort(config.port), 1000)
SweepTimerFire ==
  /\ 0 \in sweepTimers
  /\ Commit(killProcessOnPort([Mgr EXCEPT !.sweep = @ \ {0}], ChatterboxPort))
  /\ UNCHANGED <<platform, installed, call, stops, extStarts, speak,
                 query, app>>
  /\ UNCHANGED shellVars

\* the 3 s timer: it reads currentProcess when it fires
SigkillTimerFire ==
  /\ 0 \in sigkillTimers
  /\ LET s == [Mgr EXCEPT !.sigkill = @ \ {0}]
         p == s.cp
     IN Commit(IF p # NoProcess /\ ~s.proc[p].killed
               THEN [s EXCEPT !.proc[p] =
                       IF Alive(@) THEN Dead(@, "null") ELSE @]
               ELSE s)
  /\ UNCHANGED <<platform, installed, call, stops, extStarts, speak,
                 query, app>>
  /\ UNCHANGED shellVars

\* ------------------------------------------------------------------------
\* Child process events and the environment
\* ------------------------------------------------------------------------

\* the 'exit' event of child p is delivered to the handler of its start call
ExitEvent(p) ==
  /\ proc[p].st = "exiting"
  /\ Commit(OnExit([Mgr EXCEPT !.proc[p] = Gone], proc[p].code))
  /\ UNCHANGED <<platform, installed, call, stops, extStarts, speak,
                 query, app>>
  /\ UNCHANGED shellVars

\* a child ends on its own: it crashes, or it acts on a pending SIGTERM
ProcDie(p) ==
  /\ Alive(proc[p])
  /\ \E code \in (IF proc[p].term THEN {"null", "zero"} ELSE {"nonzero"}) :
       proc' = [proc EXCEPT ![p] = Dead(@, code)]
  /\ UNCHANGED <<platform, installed, currentProcess, currentEngine,
                 isServerReady, external, call, sweepTimers, sigkillTimers,
                 stops, extStarts, dialogs, speak, query, app>>
  /\ UNCHANGED shellVars

\* a child binds the engine port, then finishes loading its model
ProcServe(p) ==
  /\ Alive(proc[p])
  /\ \/ /\ proc[p].srv = "down"
        /\ PortFree(proc, external)
        /\ proc' = [proc EXCEPT ![p].srv = "unready"]
     \/ /\ proc[p].srv = "unready"
        /\ proc' = [proc EXCEPT ![p].srv = "healthy"]
  /\ UNCHANGED <<platform, installed, currentProcess, currentEngine,
                 isServerReady, external, call, sweepTimers, sigkillTimers,
                 stops, extStarts, dialogs, speak, query, app>>
  /\ UNCHANGED shellVars

\* somebody starts a server on the engine port outside the manager
ExternalStart ==
  /\ extStarts < MaxExternalStarts
  /\ PortFree(proc, external)
  /\ external' = "healthy"
  /\ extStarts' = extStarts + 1
  /\ UNCHANGED <<platform, installed, currentProcess, currentEngine,
                 isServerReady, proc, call, sweepTimers, sigkillTimers, stops,
                 dialogs, speak, query, app>>
  /\ UNCHANGED shellVars

\* one second passes: nothing is due and no child event is undelivered
EventPending == \E p \in Pids : proc[p].st = "exiting"
TimerDue ==
  \/ 0 \in sweepTimers \/ 0 \in sigkillTimers
  \/ \E c \in Calls : call[c].pc \in {"wait", "healthSleep"} /\ call[c].timer = 0
TimeMatters ==
  \/ sweepTimers # {} \/ sigkillTimers # {}
  \/ \E c \in Calls : call[c].pc \in {"wait", "healthSleep"}
  \/ \E c \in Calls : call[c].pc = "healthFetch"
                      /\ call[c].elapsed < HealthTimeoutTicks

Tick ==
  /\ ~EventPending
  /\ ~TimerDue
  /\ TimeMatters
  /\ sweepTimers' = {t - 1 : t \in sweepTimers}
  /\ sigkillTimers' = {t - 1 : t \in sigkillTimers}
  /\ call' = [c \in Calls |->
               [call[c] EXCEPT
                  !.timer = IF call[c].pc \in {"wait", "healthSleep"}
                            THEN @ - 1 ELSE @,
                  !.elapsed = IF call[c].pc \in {"healthFetch", "healthSleep"}
                                 /\ @ < HealthTimeoutTicks
                              THEN @ + 1 ELSE @]]
  /\ UNCHANGED <<platform, installed, currentProcess, currentEngine,
                 isServerReady, proc, external, stops, extStarts, dialogs,
                 speak, query, app>>
  /\ UNCHANGED shellVars

\* ------------------------------------------------------------------------
\* Status and getters (tts-manager.ts, "External Server Detection",
\* "Status & Getters")
\* ------------------------------------------------------------------------

\* detectExternalServer: res.ok, status 'healthy' and model_loaded
detectExternalServer(s) ==
  IF Listener(s.proc, s.ext) = "healthy" THEN "chatterbox" ELSE NoEngine

\* an answer to the detector's GET /health: kind is "refused" (nothing
\* listens), "timeout" (the 2 s AbortSignal fires), "non2xx", "malformed"
\* (a body JSON cannot parse) or "ok"; status and model_loaded are the
\* members of the JSON payload, "absent" and FALSE when it has none
HealthResponse(kind, status, loaded) ==
  [kind |-> kind, status |-> status, model_loaded |-> loaded]

\* the answers a listener state can give: a server that is not ready may
\* stall, fail, or answer anything but a success with status 'healthy' and
\* model_loaded true
HealthResponses(l) ==
  IF l = "down" THEN {HealthResponse("refused", "absent", FALSE)}
  ELSE IF l = "unready"
  THEN {HealthResponse(k, "absent", FALSE) :
          k \in {"timeout", "non2xx", "malformed"}}
       \cup {HealthResponse("non2xx", "healthy", TRUE)}
       \cup ({HealthResponse("ok", st, m) :
                st \in {"absent", "loading", "healthy"}, m \in BOOLEAN}
             \ {HealthResponse("ok", "healthy", TRUE)})
  ELSE {HealthResponse("ok", "healthy", TRUE)}

\* an exception leaving the evaluated code
Thrown == "thrown"

\* variant: any successful response counts as an external server
DetectTry_AnySuccess(resp) ==
  IF resp.kind \in {"refused", "timeout"} THEN Thrown
  ELSE IF resp.kind = "non2xx" THEN NoEngine
  ELSE IF resp.kind = "malformed" THEN Thrown
  ELSE "chatterbox"

\* the try block of detectExternalServer: fetch rejects when the connection
\* is refused or aborted; res.json() is read only if res.ok and rejects on
\* a malformed body; then data.status === 'healthy' && data.model_loaded
DetectTry(resp) ==
  IF resp.kind \in {"refused", "timeout"} THEN Thrown
  ELSE IF resp.kind = "non2xx" THEN NoEngine
  ELSE IF resp.kind = "malformed" THEN Thrown
  ELSE IF resp.status = "healthy" /\ resp.model_loaded THEN "chatterbox"
  ELSE NoEngine

\* variant: without the catch block
DetectCatch_Propagates(resp) == DetectTry(resp)

\* detectExternalServer for one response: catch { } swallows the exception
DetectCatch(resp) ==
  IF DetectTry(resp) = Thrown THEN NoEngine ELSE DetectTry(resp)

\* what detectExternalServer can return for a listener state
DetectOutcomes(l) == {DetectCatch(resp) : resp \in HealthResponses(l)}

\* variant: the external branch reports the manager's own ready flag
getCurrentStatusWith_OwnReady(s, ext) ==
  IF s.cp # NoProcess
  THEN [running |-> TRUE, ready |-> s.ready, engine |-> s.ce, pid |-> s.cp]
  ELSE IF ext # NoEngine
  THEN [running |-> TRUE, ready |-> s.ready, engine |-> ext,
        pid |-> NoProcess]
  ELSE [running |-> FALSE, ready |-> FALSE, engine |-> NoEngine,
        pid |-> NoProcess]

\* getCurrentStatus, given what the external detector returns when asked
getCurrentStatusWith(s, ext) ==
  IF s.cp # NoProcess
  THEN [running |-> TRUE, ready |-> s.ready, engine |-> s.ce, pid |-> s.cp]
  ELSE IF ext # NoEngine
  THEN [running |-> TRUE, ready |-> TRUE, engine |-> ext, pid |-> NoProcess]
  ELSE [running |-> FALSE, ready |-> FALSE, engine |-> NoEngine,
        pid |-> NoProcess]

getCurrentStatus(s) == getCurrentStatusWith(s, detectExternalServer(s))

\* getCurrentBaseUrl, as the engine whose port the URL names (NoEngine: null)
\* and the number of health probes the call issued
getCurrentBaseUrlWith(s, ext) ==
  IF s.ce # NoEngine THEN [engine |-> s.ce, probes |-> 0]
  ELSE [engine |-> ext, probes |-> 1]

getCurrentBaseUrl(s) == getCurrentBaseUrlWith(s, detectExternalServer(s))

\* ------------------------------------------------------------------------
\* Voices and config (tts-manager.ts fetchVoices, getCurrentConfig)
\* ------------------------------------------------------------------------
VoiceNames == {"alice", "bob"}
VoiceLists == UNION {[1..n -> VoiceNames] : n \in 0..MaxVoices}

\* the answers GET /voices can give: kind is "refused" (fetch rejects),
\* "non2xx", "malformed" (json() rejects), "null" (the body is JSON null) or
\* "object"; an object's voices member is "absent", "notArray" or an "array"
VoicesResponse(kind, shape, names) ==
  [kind |-> kind, shape |-> shape, voices |-> names]

VoicesResponses(l) ==
  IF l = "down" THEN {VoicesResponse("refused", "absent", << >>)}
  ELSE {VoicesResponse(k, "absent", << >>) :
          k \in {"non2xx", "malformed", "null", "object"}}
       \cup {VoicesResponse("object", "notArray", << >>)}
       \cup {VoicesResponse("object", "array", v) : v \in VoiceLists}

\* a value returned, or an exception thrown
Return(v) == [thrown |-> FALSE, val |-> v]
Throw == [thrown |-> TRUE, val |-> << >>]

\* the try block of fetchVoices
FetchVoicesTry(engine, resp) ==
  IF resp.kind = "refused" THEN Throw
  ELSE IF resp.kind = "non2xx" THEN Return(<<DefaultVoice>>)
  ELSE IF resp.kind \in {"malformed", "null"} THEN Throw
  ELSE IF resp.shape = "array" /\ Len(resp.voices) > 0
  THEN Return(resp.voices)
  ELSE Return(<<DefaultVoice>>)

\* variant: the error path returns no voice at all
fetchVoices_EmptyOnError(engine, resp) ==
  IF FetchVoicesTry(engine, resp).thrown THEN Return(<< >>)
  ELSE FetchVoicesTry(engine, resp)

\* fetchVoices: catch logs a warning and the default voice is returned
fetchVoices(engine, resp) ==
  IF FetchVoicesTry(engine, resp).thrown THEN Return(<<DefaultVoice>>)
  ELSE FetchVoicesTry(engine, resp)

NoConfig == [engine |-> NoEngine, voices |-> << >>]

\* variant: the managed branch does not look at isServerReady
getCurrentConfig_IgnoresReady(s, ext, v) ==
  IF s.ce # NoEngine THEN [engine |-> s.ce, voices |-> v]
  ELSE IF ext # NoEngine THEN [engine |-> ext, voices |-> v]
  ELSE NoConfig

\* getCurrentConfig, given what the detector returns when asked and the
\* voices fetchVoices returns when asked; NoConfig for null
getCurrentConfig(s, ext, v) ==
  IF s.ce # NoEngine /\ s.ready THEN [engine |-> s.ce, voices |-> v]
  ELSE IF ext # NoEngine THEN [engine |-> ext, voices |-> v]
  ELSE NoConfig

\* ------------------------------------------------------------------------
\* Speech request handling (main.ts)
\* ------------------------------------------------------------------------
Texts == {"", "Hello world"}
SpeakVoices == {"", "default", "alice"}

\* outcomes of POST /v1/audio/speech for a listener state
SpeechOutcomes(l) ==
  IF l = "down" THEN {"exception"} ELSE {"none", "HTTP status"}

NoBody == [k \in {} |-> ""]

\* variant: every non-empty voice is sent, 'default' included
BuildBody_AnyVoice(text, voice) ==
  [k \in {"input", "response_format"}
         \cup (IF voice # "" THEN {"voice"} ELSE {}) |->
     IF k = "input" THEN text
     ELSE IF k = "response_format" THEN "wav"
     ELSE voice]

\* the JSON request body: input and response_format, and voice only
\* if (voice && voice !== 'default')
BuildBody(text, voice) ==
  [k \in {"input", "response_format"}
         \cup (IF voice # "" /\ voice # "default" THEN {"voice"} ELSE {}) |->
     IF k = "input" THEN text
     ELSE IF k = "response_format" THEN "wav"
     ELSE voice]

\* the error member of the handler's return value for a POST outcome:
\* the catch block returns String(error), a non-ok response `HTTP ${status}`
SpeakError(o) ==
  IF o = "exception" THEN "String(error)"
  ELSE IF o = "HTTP status" THEN "HTTP ${status}"
  ELSE "none"

SpeakResult(ch, text, voice, rej, outcome, error, probes, posts, body) ==
  [channel |-> ch, text |-> text, voice |-> voice, rejected |-> rej,
   outcome |-> outcome, error |-> error, probes |-> probes, posts |-> posts,
   body |-> body]

\* ipcMain.handle('tts:speak'): the base URL is awaited outside the try
SpeakTts(text, voice) ==
  /\ \E ext \in DetectOutcomes(Listener(proc, external)) :
       LET url == getCurrentBaseUrlWith(Mgr, ext)
       IN IF url.engine = Thrown
          THEN speak' = SpeakResult("tts", text, voice, TRUE, "none", "none",
                                    url.probes, 0, NoBody)
          ELSE IF url.engine = NoEngine
          THEN speak' = SpeakResult("tts", text, voice, FALSE, "none",
                                    "No TTS engine running", url.probes, 0,
                                    NoBody)
          ELSE IF text = ""
          THEN speak' = SpeakResult("tts", text, voice, FALSE, "none",
                                    "Empty text", url.probes, 0, NoBody)
          ELSE \E o \in SpeechOutcomes(Listener(proc, external)) :
                 speak' = SpeakResult("tts", text, voice, FALSE, o,
                                      SpeakError(o), url.probes, 1,
                                      BuildBody(text, voice))
  /\ query' = NoQuery
  /\ UNCHANGED <<platform, installed, currentProcess, currentEngine,
                 isServerReady, proc, external, call, sweepTimers,
                 sigkillTimers, stops, extStarts, dialogs, app>>
  /\ UNCHANGED shellVars

\* ipcMain.handle('orpheus:speak'): the base URL is awaited inside the try
SpeakOrpheus(text, voice) ==
  /\ IF text = ""
     THEN speak' = SpeakResult("orpheus", text, voice, FALSE, "none",
                               "Empty text", 0, 0, NoBody)
     ELSE \E ext \in DetectOutcomes(Listener(proc, external)) :
          LET url == getCurrentBaseUrlWith(Mgr, ext)
          IN IF url.engine = Thrown
             THEN speak' = SpeakResult("orpheus", text, voice, FALSE,
                                       "none", "String(error)", url.probes,
                                       0, NoBody)
             ELSE IF url.engine = NoEngine
             THEN speak' = SpeakResult("orpheus", text, voice, FALSE,
                                       "none", "No TTS server available",
                                       url.probes, 0, NoBody)
             ELSE \E o \in SpeechOutcomes(Listener(proc, external)) :
                    speak' = SpeakResult("orpheus", text, voice, FALSE, o,
                                         SpeakError(o), url.probes, 1,
                                         BuildBody(text, voice))
  /\ query' = NoQuery
  /\ UNCHANGED <<platform, installed, currentProcess, currentEngine,
                 isServerReady, proc, external, call, sweepTimers,
                 sigkillTimers, stops, extStarts, dialogs, app>>
  /\ UNCHANGED shellVars

\* ------------------------------------------------------------------------
\* Status, config and voices handlers (main.ts)
\* ------------------------------------------------------------------------
NoStatus == [running |-> FALSE, ready |-> FALSE, engine |-> NoEngine,
             pid |-> NoProcess]
NoVoicesResp == VoicesResponse("none", "absent", << >>)

NoProbe == HealthResponse("none", "absent", FALSE)

\* asked is the GET /voices answer the handler received and probe the
\* GET /health answer its detector received, where it records them
QueryResult(channel, rejected, asked, result) ==
  [channel |-> channel, rejected |-> rejected, asked |-> asked,
   probe |-> NoProbe, result |-> result]

\* variant: a detected external server is recorded as the current engine
GetStatus_Adopts ==
  /\ \E resp \in HealthResponses(Listener(proc, external)) :
       LET ext == DetectCatch(resp)
           rej == currentProcess = NoProcess /\ ext = Thrown
       IN /\ query' = [QueryResult("tts:getStatus", rej, NoVoicesResp,
                         IF rej THEN NoStatus
                         ELSE getCurrentStatusWith(Mgr, ext))
                       EXCEPT !.probe = IF currentProcess = NoProcess
                                        THEN resp ELSE NoProbe]
          /\ currentEngine' = IF currentProcess = NoProcess /\ ~rej
                              THEN ext ELSE currentEngine
  /\ speak' = NoSpeak
  /\ UNCHANGED <<platform, installed, currentProcess,
                 isServerReady, proc, external, call, sweepTimers,
                 sigkillTimers, stops, extStarts, dialogs, app>>
  /\ UNCHANGED shellVars

\* ipcMain.handle('tts:getStatus'): the detector is awaited outside any try
GetStatus ==
  /\ \E resp \in HealthResponses(Listener(proc, external)) :
       LET ext == DetectCatch(resp)
           rej == currentProcess = NoProcess /\ ext = Thrown
       IN query' = [QueryResult("tts:getStatus", rej, NoVoicesResp,
                      IF rej THEN NoStatus
                      ELSE getCurrentStatusWith(Mgr, ext))
                    EXCEPT !.probe = IF currentProcess = NoProcess
                                     THEN resp ELSE NoProbe]
  /\ speak' = NoSpeak
  /\ UNCHANGED <<platform, installed, currentProcess, currentEngine,
                 isServerReady, proc, external, call, sweepTimers,
                 sigkillTimers, stops, extStarts, dialogs, app>>
  /\ UNCHANGED shellVars

\* getInstalledEngines: one entry per configured engine, with a live
\* fs.existsSync of its binary
getInstalledEngines ==
  [engines |-> <<[id |-> "chatterbox", name |-> "Chatterbox (Local GPU)",
                  installed |-> installed]>>]

\* ipcMain.handle('tts:getEngines')
GetEngines ==
  /\ query' = QueryResult("tts:getEngines", FALSE, NoVoicesResp,
                          getInstalledEngines)
  /\ speak' = NoSpeak
  /\ UNCHANGED <<platform, installed, currentProcess, currentEngine,
                 isServerReady, proc, external, call, sweepTimers,
                 sigkillTimers, stops, extStarts, dialogs, app>>
  /\ UNCHANGED shellVars

\* ipcMain.handle('tts:getConfig')
GetConfig ==
  /\ \E found \in DetectOutcomes(Listener(proc, external)) :
       LET managed == currentEngine # NoEngine /\ isServerReady
           ext == IF managed THEN NoEngine ELSE found
       IN IF ext = Thrown
          THEN query' = QueryResult("tts:getConfig", TRUE, NoVoicesResp,
                                    NoConfig)
          ELSE IF ~managed /\ ext = NoEngine
          THEN query' = QueryResult("tts:getConfig", FALSE, NoVoicesResp,
                          getCurrentConfig(Mgr, ext, << >>))
          ELSE \E vresp \in VoicesResponses(Listener(proc, external)) :
                 LET v == fetchVoices(IF managed THEN currentEngine ELSE ext,
                                      vresp)
                 IN query' = QueryResult("tts:getConfig", v.thrown, vresp,
                               IF v.thrown THEN NoConfig
                               ELSE getCurrentConfig(Mgr, ext, v.val))
  /\ speak' = NoSpeak
  /\ UNCHANGED <<platform, installed, currentProcess, currentEngine,
                 isServerReady, proc, external, call, sweepTimers,
                 sigkillTimers, stops, extStarts, dialogs, app>>
  /\ UNCHANGED shellVars

VoicesReply(voices, error) == [voices |-> voices, error |-> error]

\* ipcMain.handle('tts:getVoices'): the status is awaited outside the try,
\* fetchVoices inside it
GetVoices ==
  /\ \E ext \in DetectOutcomes(Listener(proc, external)) :
       LET status == getCurrentStatusWith(Mgr, ext)
       IN IF currentProcess = NoProcess /\ ext = Thrown
          THEN query' = QueryResult("tts:getVoices", TRUE, NoVoicesResp,
                                    VoicesReply(<< >>, "none"))
          ELSE IF status.engine = NoEngine \/ ~status.ready
          THEN query' = QueryResult("tts:getVoices", FALSE, NoVoicesResp,
                          VoicesReply(<< >>, "No TTS engine running"))
          ELSE \E vresp \in VoicesResponses(Listener(proc, external)) :
                 LET v == fetchVoices(status.engine, vresp)
                 IN query' = QueryResult("tts:getVoices", FALSE, vresp,
                               IF v.thrown
                               THEN VoicesReply(<< >>, "String(error)")
                               ELSE VoicesReply(v.val, "none"))
  /\ speak' = NoSpeak
  /\ UNCHANGED <<platform, installed, currentProcess, currentEngine,
                 isServerReady, proc, external, call, sweepTimers,
                 sigkillTimers, stops, extStarts, dialogs, app>>
  /\ UNCHANGED shellVars

\* ------------------------------------------------------------------------
\* Specification
\* ------------------------------------------------------------------------
Init ==
  /\ platform \in Platforms
  /\ installed \in BOOLEAN
  /\ currentProcess = NoProcess
  /\ currentEngine = NoEngine
  /\ isServerReady = FALSE
  /\ proc = [p \in Pids |-> NoProc]
  /\ external = "down"
  /\ call = [c \in Calls |-> IdleCall]
  /\ sweepTimers = {}
  /\ sigkillTimers = {}
  /\ stops = 0
  /\ extStarts = 0
  /\ dialogs = 0
  /\ speak = NoSpeak
  /\ query = NoQuery
  /\ app = "running"
  /\ now = 0
  /\ tempFiles = NoFiles
  /\ speakCalls = [k \in SpeakCalls |-> NoSpeakCall]
  /\ cachedVersion = NoVersion
  /\ sync = NoSync
  /\ syncs = 0
  /\ updater = NoUpdater

Next ==
  \/ \E c \in Calls, e \in Engines : StartEngine(c, e)
  \/ \E c \in Calls : StartResume(c)
  \/ \E c \in Calls : HealthFetchDone(c)
  \/ \E c \in Calls : HealthSleepDone(c)
  \/ \E c \in Calls : VoicesDone(c)
  \/ Stop
  \/ SweepTimerFire
  \/ SigkillTimerFire
  \/ \E p \in Pids : ExitEvent(p)
  \/ \E p \in Pids : ProcDie(p)
  \/ \E p \in Pids : ProcServe(p)
  \/ ExternalStart
  \/ Tick

Spec == Init /\ [][Next]_vars

\* the IPC surface around one startEngine call: the lifecycle of the first
\* call, stop(), the environment and the two speak handlers
NextIPC ==
  \/ \E e \in Engines : StartEngine(1, e)
  \/ HealthFetchDone(1)
  \/ HealthSleepDone(1)
  \/ VoicesDone(1)
  \/ Stop
  \/ SweepTimerFire
  \/ SigkillTimerFire
  \/ ExitEvent(1)
  \/ ProcDie(1)
  \/ ProcServe(1)
  \/ ExternalStart
  \/ Tick
  \/ \E text \in Texts, voice \in SpeakVoices : SpeakTts(text, voice)
  \/ \E text \in Texts, voice \in SpeakVoices : SpeakOrpheus(text, voice)

SpecIPC == Init /\ [][NextIPC]_vars

\* the tts:* handlers that answer the renderer, around one startEngine call
\* and its environment
NextQuery ==
  \/ \E e \in Engines : StartEngine(1, e)
  \/ HealthFetchDone(1)
  \/ HealthSleepDone(1)
  \/ VoicesDone(1)
  \/ SweepTimerFire
  \/ SigkillTimerFire
  \/ ExitEvent(1)
  \/ ProcDie(1)
  \/ ProcServe(1)
  \/ ExternalStart
  \/ Tick
  \/ GetEngines
  \/ GetStatus
  \/ GetConfig
  \/ GetVoices
  \/ \E text \in Texts, voice \in SpeakVoices : SpeakTts(text, voice)

SpecQuery == Init /\ [][NextQuery]_vars

\* one start call, stop calls and status queries, with an engine that was
\* started outside the application
NextAdopt ==
  \/ \E e \in Engines : StartEngine(1, e)
  \/ HealthFetchDone(1)
  \/ HealthSleepDone(1)
  \/ VoicesDone(1)
  \/ Stop
  \/ SweepTimerFire
  \/ SigkillTimerFire
  \/ ExitEvent(1)
  \/ ProcDie(1)
  \/ ProcServe(1)
  \/ ExternalStart
  \/ Tick
  \/ GetStatus

SpecAdopt == Init /\ [][NextAdopt]_vars

\* ------------------------------------------------------------------------
\* Application shutdown (main.ts)
\* ------------------------------------------------------------------------

\* app.on('window-all-closed'): stopCurrentEngine(), then app.quit() unless
\* the platform is darwin, where the application stays up without a window
WindowAllClosed ==
  /\ app = "running"
  /\ Commit(stopCurrentEngine(Mgr))
  /\ app' \in IF platform = "win32" THEN {"quitting"}
              ELSE {"quitting", "windowless"}
  /\ UNCHANGED <<platform, installed, call, stops, extStarts, speak, query>>
  /\ UNCHANGED shellVars

\* app.on('will-quit'): stopCurrentEngine(), after which the process ends:
\* no timer fires and no event handler runs any more
WillQuit ==
  /\ app # "quit"
  /\ LET s == stopCurrentEngine(Mgr) IN
     Commit([s EXCEPT !.sweep = {}, !.sigkill = {}])
  /\ app' = "quit"
  /\ UNCHANGED <<platform, installed, call, stops, extStarts, speak, query>>
  /\ UNCHANGED shellVars

\* the application around one startEngine call, up to its exit; the children
\* and the external server live on after it
NextShutdown ==
  \/ /\ app # "quit"
     /\ \/ \E e \in Engines : StartEngine(1, e)
        \/ HealthFetchDone(1)
        \/ HealthSleepDone(1)
        \/ VoicesDone(1)
        \/ Stop
        \/ SweepTimerFire
        \/ SigkillTimerFire
        \/ ExitEvent(1)
        \/ Tick
  \/ ProcDie(1)
  \/ ProcServe(1)
  \/ ExternalStart
  \/ WindowAllClosed
  \/ WillQuit

SpecShutdown == Init /\ [][NextShutdown]_vars

\* ------------------------------------------------------------------------
\* Progress of one startEngine call
\* ------------------------------------------------------------------------
NextLive ==
  \/ \E e \in Engines : StartEngine(1, e)
  \/ HealthFetchDone(1)
  \/ HealthSleepDone(1)
  \/ VoicesDone(1)
  \/ Stop
  \/ SweepTimerFire
  \/ SigkillTimerFire
  \/ ExitEvent(1)
  \/ ProcDie(1)
  \/ ProcServe(1)
  \/ ExternalStart
  \/ Tick

\* a request to the engine port settles by itself when nothing listens (the
\* connection is refused) or a healthy server answers; a listener that is
\* still starting may hold the connection open, and the fetch calls of
\* waitForHealth and fetchVoices carry no AbortSignal
RequestSettles == Listener(proc, external) # "unready"

\* what the event loop guarantees: due timers fire, pending 'exit' events
\* are delivered, time passes, and settled requests resume their callers
FairLive ==
  /\ WF_vars(HealthFetchDone(1) /\ RequestSettles)
  /\ WF_vars(VoicesDone(1) /\ RequestSettles)
  /\ WF_vars(HealthSleepDone(1))
  /\ WF_vars(SweepTimerFire)
  /\ WF_vars(SigkillTimerFire)
  /\ WF_vars(ExitEvent(1))
  /\ WF_vars(Tick)

SpecLive == Init /\ [][NextLive]_vars /\ FairLive

\* ------------------------------------------------------------------------
\* Audio files of the speak handlers (main.ts)
\* ------------------------------------------------------------------------

\* `tts-audio-${Date.now()}.wav` and `orpheus-tts-${Date.now()}.wav`
FileName(channel, t) ==
  <<IF channel = "tts:speak" THEN "tts-audio-" ELSE "orpheus-tts-", t, ".wav">>

\* `orpheus-audio://${fileName}`
AudioUrl(fileName) == <<"orpheus-audio://">> \o fileName

\* protocol.handle('orpheus-audio'): the URL without its scheme is the name
\* of the file served from the temp directory
ServedFile(url) == SubSeq(url, 2, Len(url))

\* fs.writeFileSync: creates the file or replaces its content
writeFileSync(files, name, data) ==
  [n \in DOMAIN files \cup {name} |-> IF n = name THEN data ELSE files[n]]

\* a speak handler has a base URL and a non-empty text and sends its POST
SpeechPosted(k, channel) ==
  /\ speakCalls[k].pc = "idle"
  /\ IF k = 1 THEN TRUE ELSE speakCalls[k - 1].pc # "idle"
  /\ speakCalls' = [speakCalls EXCEPT ![k].pc = "posted",
                                      ![k].channel = channel]
  /\ UNCHANGED <<now, tempFiles>>
  /\ UNCHANGED <<syncVars, updater>>
  /\ UNCHANGED managerVars

\* the POST is answered and the handler runs to its return: an error
\* result, or the body written to a file named after the current time
SpeechAnswered(k) ==
  /\ speakCalls[k].pc = "posted"
  /\ \/ /\ speakCalls' = [speakCalls EXCEPT ![k].pc = "returned"]
        /\ UNCHANGED tempFiles
     \/ \E bytes \in AudioBytes :
          LET fileName == FileName(speakCalls[k].channel, now)
          IN /\ tempFiles' = writeFileSync(tempFiles, fileName, bytes)
             /\ speakCalls' =
                  [speakCalls EXCEPT
                     ![k].pc = "returned", ![k].bytes = bytes,
                     ![k].result = [success |-> TRUE,
                                    audioUrl |-> AudioUrl(fileName)]]
  /\ UNCHANGED now
  /\ UNCHANGED <<syncVars, updater>>
  /\ UNCHANGED managerVars

\* the system clock advances by a millisecond
ClockTick ==
  /\ now < MaxClock
  /\ now' = now + 1
  /\ UNCHANGED <<tempFiles, speakCalls>>
  /\ UNCHANGED <<syncVars, updater>>
  /\ UNCHANGED managerVars

NextAudio ==
  \/ \E k \in SpeakCalls, channel \in SpeakChannels : SpeechPosted(k, channel)
  \/ \E k \in SpeakCalls : SpeechAnswered(k)
  \/ ClockTick

SpecAudio == Init /\ [][NextAudio]_vars

\* ------------------------------------------------------------------------
\* Asset sync (asset-sync-manager.ts)
\* ------------------------------------------------------------------------

\* answers to GET /api/assets/manifest: a rejected fetch, a non-success
\* status, a body that is no JSON, or a manifest
ManifestResponses ==
  {[kind |-> k, manifest |-> NoManifest] : k \in {"error", "non2xx", "malformed"}}
  \cup {[kind |-> "ok", manifest |-> m] : m \in Manifests}

\* fetchManifest: null unless the response is ok and parses
fetchManifest(resp) == IF resp.kind = "ok" THEN resp.manifest ELSE NoManifest

\* getCachedVersion: the stored item, or null when executeJavaScript rejects
getCachedVersion(ok) == IF ok THEN cachedVersion ELSE NoVersion

\* variant: a manifest that could not be fetched counts as a version change
checkSyncNeeded_OfflineSyncs(manifest, cached) ==
  IF manifest = NoManifest
  THEN [needed |-> TRUE, reason |-> "Could not fetch manifest (offline?)"]
  ELSE IF cached = NoVersion
  THEN [needed |-> TRUE, reason |-> "No cached assets"]
  ELSE IF cached # manifest.assetPackVersion
  THEN [needed |-> TRUE, reason |-> "Version mismatch"]
  ELSE [needed |-> FALSE, reason |-> "Assets up to date"]

checkSyncNeeded(manifest, cached) ==
  IF manifest = NoManifest
  THEN [needed |-> FALSE, reason |-> "Could not fetch manifest (offline?)"]
  ELSE IF cached = NoVersion
  THEN [needed |-> TRUE, reason |-> "No cached assets"]
  ELSE IF cached # manifest.assetPackVersion
  THEN [needed |-> TRUE, reason |-> "Version mismatch"]
  ELSE [needed |-> FALSE, reason |-> "Assets up to date"]

IsRequired(manifest, asset) == asset.id \in manifest.required

\* manifest.assets.filter(a => manifest.required.includes(a.id))
RequiredAssets(manifest) ==
  SelectSeq(manifest.assets, LAMBDA a : IsRequired(manifest, a))

RECURSIVE SumSizes(_)
SumSizes(assets) ==
  IF assets = << >> THEN 0 ELSE Head(assets).size + SumSizes(Tail(assets))

\* variant: remaining counts the failed assets as still to come
SyncProgressOf_FailedRemain(sy, asset, assetBytes) ==
  [downloadedBytes |-> sy.downloadedBytes,
   totalBytes |-> SumSizes(RequiredAssets(sy.manifest)),
   currentAsset |-> asset.id,
   currentAssetBytes |-> assetBytes,
   currentAssetTotal |-> asset.size,
   completed |-> sy.completed,
   remaining |-> Len(RequiredAssets(sy.manifest)) - sy.completed,
   failed |-> sy.failed]

\* the SyncProgress object downloadAssets passes to onProgress
SyncProgressOf(sy, asset, assetBytes) ==
  [downloadedBytes |-> sy.downloadedBytes,
   totalBytes |-> SumSizes(RequiredAssets(sy.manifest)),
   currentAsset |-> asset.id,
   currentAssetBytes |-> assetBytes,
   currentAssetTotal |-> asset.size,
   completed |-> sy.completed,
   remaining |-> Len(RequiredAssets(sy.manifest)) - sy.completed - sy.failed,
   failed |-> sy.failed]

\* performAssetSync returns result after a last onStatus call
SyncReturn(sy, status, result) ==
  [sy EXCEPT !.pc = "done", !.statuses = Append(@, status),
             !.result = result]

SkipResult == [success |-> TRUE, downloaded |-> 0, failed |-> 0, skipped |-> TRUE]

\* variant: the download counts as a success once one asset was stored
DownloadResult_AnyStored(sy) ==
  [success |-> sy.failed = 0 \/ sy.completed > 0, downloaded |-> sy.completed,
   failed |-> sy.failed, skipped |-> FALSE]

\* the SyncResult downloadAssets returns
DownloadResult(sy) ==
  [success |-> sy.failed = 0, downloaded |-> sy.completed,
   failed |-> sy.failed, skipped |-> FALSE]

\* downloadAssets returned: performAssetSync reports 'complete' or 'error'
\* from result.success and returns the result
SyncFinish(sy) ==
  LET result == DownloadResult(sy)
  IN SyncReturn(sy, IF result.success THEN "complete" ELSE "error", result)

\* variant: the version is saved after every download
SavesVersion_Always(sy) == TRUE

\* `if (failed === 0)` in front of setCachedVersion
SavesVersion(sy) == sy.failed = 0

\* performAssetSync is called: onStatus('checking'), then the manifest fetch
PerformAssetSync ==
  /\ syncs < MaxSyncs
  /\ sync.pc \in {"idle", "done"}
  /\ syncs' = syncs + 1
  /\ sync' = [NoSync EXCEPT !.pc = "manifest", !.statuses = <<"checking">>]
  /\ UNCHANGED cachedVersion
  /\ UNCHANGED <<audioVars, updater>>
  /\ UNCHANGED managerVars

\* the manifest fetch is over: skip without a manifest, otherwise read the
\* cached version
ManifestFetched ==
  /\ sync.pc = "manifest"
  /\ \E resp \in ManifestResponses :
       LET manifest == fetchManifest(resp)
           check == checkSyncNeeded(manifest, NoVersion)
       IN IF manifest = NoManifest
          THEN sync' = IF check.needed
                       THEN [sync EXCEPT !.pc = "saving",
                                         !.statuses = Append(@, "syncing")]
                       ELSE SyncReturn(sync, "skip", SkipResult)
          ELSE sync' = [sync EXCEPT !.pc = "cached", !.manifest = manifest,
                                    !.fetched = TRUE]
  /\ UNCHANGED <<cachedVersion, syncs>>
  /\ UNCHANGED <<audioVars, updater>>
  /\ UNCHANGED managerVars

\* the cached version was read: skip when it is the manifest's version,
\* otherwise onStatus('syncing') and downloadAssets up to its first await
CachedVersionRead ==
  /\ sync.pc = "cached"
  /\ \E ok \in BOOLEAN :
       LET check == checkSyncNeeded(sync.manifest, getCachedVersion(ok))
           required == RequiredAssets(sync.manifest)
           sy == [sync EXCEPT !.statuses = Append(@, "syncing"),
                              !.before = cachedVersion]
       IN sync' =
            IF ~check.needed
            THEN SyncReturn(sync, "skip", SkipResult)
            ELSE IF required = << >>
            THEN IF SavesVersion(sy) THEN [sy EXCEPT !.pc = "saving"]
                 ELSE SyncFinish(sy)
            ELSE [sy EXCEPT !.pc = "asset", !.i = 1,
                            !.progress = <<SyncProgressOf(sy, required[1], 0)>>]
  /\ UNCHANGED <<cachedVersion, syncs>>
  /\ UNCHANGED <<audioVars, updater>>
  /\ UNCHANGED managerVars

\* the script that downloads and stores one asset is over: it returned
\* true, returned false, or executeJavaScript rejected
AssetDone ==
  /\ sync.pc = "asset"
  /\ \E outcome \in {"stored", "false", "throws"} :
       LET required == RequiredAssets(sync.manifest)
           asset == required[sync.i]
           counted ==
             IF outcome = "stored"
             THEN [sync EXCEPT !.downloadedBytes = @ + asset.size,
                               !.completed = @ + 1,
                               !.outcomes = Append(@, outcome)]
             ELSE [sync EXCEPT !.failed = @ + 1,
                               !.outcomes = Append(@, outcome)]
           after ==
             [counted EXCEPT
                !.progress = Append(@, SyncProgressOf(counted, asset, asset.size))]
       IN sync' =
            IF sync.i < Len(required)
            THEN [after EXCEPT
                    !.i = @ + 1,
                    !.progress =
                       Append(@, SyncProgressOf(after, required[sync.i + 1], 0))]
            ELSE IF SavesVersion(after)
            THEN [after EXCEPT !.pc = "saving"]
            ELSE SyncFinish(after)
  /\ UNCHANGED <<cachedVersion, syncs>>
  /\ UNCHANGED <<audioVars, updater>>
  /\ UNCHANGED managerVars

\* setCachedVersion is over (a rejected executeJavaScript is only logged):
\* downloadAssets returns and performAssetSync reports 'complete'
VersionSaved ==
  /\ sync.pc = "saving"
  /\ \E ok \in BOOLEAN :
       /\ cachedVersion' = IF ok THEN sync.manifest.assetPackVersion
                           ELSE cachedVersion
       /\ sync' = SyncFinish([sync EXCEPT !.saved = ok])
  /\ UNCHANGED syncs
  /\ UNCHANGED <<audioVars, updater>>
  /\ UNCHANGED managerVars

NextSync ==
  \/ PerformAssetSync
  \/ ManifestFetched
  \/ CachedVersionRead
  \/ AssetDone
  \/ VersionSaved

SpecSync == Init /\ [][NextSync]_vars

\* ------------------------------------------------------------------------
\* Auto-update (updater.ts)
\* ------------------------------------------------------------------------

\* variant: electron-updater's default, download as soon as an update is found
autoDownload_Default == TRUE

\* autoUpdater.autoDownload = false
autoDownload == FALSE

\* showUpdateAvailable: the 'Update Available' box, if there is a window
showUpdateAvailable(u, hasWindow) ==
  IF hasWindow
  THEN [u EXCEPT !.offered = @ + 1, !.availableOpen = @ + 1]
  ELSE u

\* showUpdateDownloaded: the 'Update Ready' box, if there is a window
showUpdateDownloaded(u, hasWindow) ==
  IF hasWindow
  THEN [u EXCEPT !.readyShown = @ + 1, !.readyOpen = @ + 1]
  ELSE u

\* autoUpdater.downloadUpdate(): a download is under way
downloadUpdate(u) ==
  [u EXCEPT !.downloadsStarted = @ + 1, !.downloading = @ + 1]

\* setupAutoUpdater and its 4 h interval: autoUpdater.checkForUpdates()
CheckForUpdates ==
  /\ updater.quitAndInstall = 0
  /\ updater.checks < MaxChecks
  /\ updater' = [updater EXCEPT !.checks = @ + 1,
                                !.checking = @ \cup {updater.checks + 1}]
  /\ UNCHANGED <<audioVars, syncVars>>
  /\ UNCHANGED managerVars

\* a check ends: 'update-available' (the library downloads at once when
\* autoDownload is set), 'update-not-available' or 'error'
CheckDone(c) ==
  /\ updater.quitAndInstall = 0
  /\ c \in updater.checking
  /\ \E event \in {"update-available", "update-not-available", "error"},
        hasWindow \in BOOLEAN :
       LET u == [updater EXCEPT !.checking = @ \ {c}]
       IN updater' =
            IF event = "update-available"
            THEN showUpdateAvailable(IF autoDownload THEN downloadUpdate(u)
                                     ELSE u, hasWindow)
            ELSE u
  /\ UNCHANGED <<audioVars, syncVars>>
  /\ UNCHANGED managerVars

\* the user answers an 'Update Available' box: 'Download' calls
\* autoUpdater.downloadUpdate(), 'Later' does nothing
AnswerAvailable(response) ==
  /\ updater.quitAndInstall = 0
  /\ updater.availableOpen > 0
  /\ LET u == [updater EXCEPT !.availableOpen = @ - 1]
     IN updater' =
          IF response = 0
          THEN downloadUpdate([u EXCEPT !.downloadChosen = @ + 1])
          ELSE u
  /\ UNCHANGED <<audioVars, syncVars>>
  /\ UNCHANGED managerVars

\* a download ends: 'update-downloaded' or 'error'
DownloadDone ==
  /\ updater.quitAndInstall = 0
  /\ updater.downloading > 0
  /\ \E event \in {"update-downloaded", "error"}, hasWindow \in BOOLEAN :
       LET u == [updater EXCEPT !.downloading = @ - 1]
       IN updater' =
            IF event = "update-downloaded"
            THEN showUpdateDownloaded([u EXCEPT !.downloadsDone = @ + 1],
                                      hasWindow)
            ELSE u
  /\ UNCHANGED <<audioVars, syncVars>>
  /\ UNCHANGED managerVars

\* the user answers an 'Update Ready' box: 'Restart Now' calls
\* autoUpdater.quitAndInstall, which ends the application
AnswerReady(response) ==
  /\ updater.quitAndInstall = 0
  /\ updater.readyOpen > 0
  /\ LET u == [updater EXCEPT !.readyOpen = @ - 1]
     IN updater' =
          IF response = 0
          THEN [u EXCEPT !.restartChosen = @ + 1, !.quitAndInstall = @ + 1]
          ELSE u
  /\ UNCHANGED <<audioVars, syncVars>>
  /\ UNCHANGED managerVars

NextUpdate ==
  \/ CheckForUpdates
  \/ \E c \in 1..MaxChecks : CheckDone(c)
  \/ \E response \in {0, 1} : AnswerAvailable(response)
  \/ DownloadDone
  \/ \E response \in {0, 1} : AnswerReady(response)

SpecUpdate == Init /\ [][NextUpdate]_vars

\* ------------------------------------------------------------------------
\* Properties
\* ------------------------------------------------------------------------
AliveChildren == {p \in Pids : Alive(proc[p])}
InFlight(c) == call[c].pc \notin {"idle", "resolved", "rejected"}
Invoked(c) == call[c].pc = "idle" /\ call'[c].pc # "idle"
Spawns(c) == proc[c].st = "unborn" /\ proc'[c].st # "unborn"
Resolves(c) == call[c].pc # "resolved" /\ call'[c].pc = "resolved"
RejectsWith(c, r) == call[c].pc # "rejected" /\ call'[c].pc = "rejected"
                     /\ call'[c].result = r
StopCalled == stops' = stops + 1

\* C1: at most one child process spawned by the manager is alive at any
\* instant, for every interleaving of start and stop calls.
C1_AtMostOneChildAlive == Cardinality(AliveChildren) <= 1

\* C2: a start or stop invoked while an earlier start has not yet resolved
\* or rejected does not kill, spawn or change the running state.
C2_CallsSerialized ==
  [][((\E c \in Calls : InFlight(c)) /\ (StopCalled \/ \E c \in Calls : Invoked(c)))
       => UNCHANGED <<currentProcess, currentEngine, isServerReady, proc>>]_vars

\* C3: when startEngine(E) resolves with a config, a managed process for E
\* is tracked and marked ready.
C3_ResolvedMeansTrackedReady ==
  [][\A c \in Calls :
       Resolves(c) => /\ currentProcess' # NoProcess
                      /\ currentEngine' = call[c].engine
                      /\ isServerReady']_vars

\* C4: a start invoked while a managed process is tracked spawns its new
\* process only after the existing one has ended, with a different pid, and
\* the tracked state then holds the new process only.
C4_RestartReplaces ==
  [][\A c \in Calls :
       (call[c].stopped # NoProcess /\ Spawns(c) /\ proc'[c].st = "alive")
         => /\ ~Alive(proc'[call[c].stopped])
            /\ c # call[c].stopped
            /\ currentProcess' = c
            /\ AliveChildren' = {c}]_vars

\* C5: when the health check never succeeds within the timeout, start
\* rejects with a timeout error, the process that start spawned has been
\* sent termination, and no process handle is tracked afterwards.
C5_TimeoutTerminatesSpawned ==
  [][\A c \in Calls :
       RejectsWith(c, "timeout")
         => /\ currentProcess' = NoProcess
            /\ currentEngine' = NoEngine
            /\ Alive(proc'[c]) => proc'[c].term]_vars

\* C6: with the engine's binary absent, start rejects with an installation
\* error, the call spawns no process, and afterwards nothing is tracked.
C6_AbsentBinaryRejects ==
  [][\A c \in Calls :
       (~installed /\ (Invoked(c) \/ (call[c].pc = "wait" /\ call'[c].pc # "wait")))
         => /\ call'[c].pc \in {"wait", "rejected"}
            /\ call'[c].pc = "rejected" => call'[c].result = "notfound"
            /\ proc'[c].st = "unborn"
            /\ currentProcess' = NoProcess
            /\ currentEngine' = NoEngine
            /\ ~isServerReady']_vars

C6_Witness ==
  \E c \in Calls : /\ call[c].pc = "rejected" /\ call[c].result = "notfound"
                   /\ proc[c].st = "unborn" /\ currentProcess = NoProcess

\* C7: after stop() returns, getStatus() reports running == false unless a
\* healthy server the manager did not spawn answers on the engine port.
StatusNow == getCurrentStatus(Mgr)

C7_StoppedNotRunning ==
  [][StopCalled => (StatusNow'.running => external' = "healthy")]_vars

\* C8: speak with empty text returns the 'Empty text' error and issues no
\* HTTP request, neither a speech POST nor a health probe.
C8_EmptyTextNoRequest ==
  (speak.channel # "none" /\ speak.text = "")
    => (speak.error = "Empty text" /\ speak.probes = 0 /\ speak.posts = 0)

\* C9: when the process a start spawned has emitted a spawn error or exited
\* before a health check succeeded, that start's health wait does not
\* succeed; and start never resolves while the process it spawned is gone
\* and no managed process is tracked.
C9_GoneProcessRejects ==
  [][\A c \in Calls :
       /\ (call[c].pc \in {"healthFetch", "healthSleep"}
           /\ proc[c].st \in {"failed", "gone"}) => call'[c].pc # "voices"
       /\ Resolves(c) => ~(proc'[c].st \in {"failed", "gone"}
                           /\ currentProcess' = NoProcess)]_vars

\* C10: the exit event of the tracked process clears the running state and
\* raises the error box exactly for a non-null, non-zero exit code; a spawn
\* error clears the state and raises the error box.
C10_ExitClearsAndNotifies ==
  [][\A p \in Pids :
       /\ (currentProcess = p /\ proc[p].st = "exiting" /\ proc'[p].st = "gone")
            => /\ currentProcess' = NoProcess
               /\ currentEngine' = NoEngine
               /\ ~isServerReady'
               /\ dialogs' = dialogs + (IF proc[p].code \in {"zero", "null"}
                                        THEN 0 ELSE 1)
       /\ (proc[p].st = "unborn" /\ proc'[p].st = "failed")
            => /\ currentProcess' = NoProcess
               /\ currentEngine' = NoEngine
               /\ ~isServerReady'
               /\ dialogs' = dialogs + 1]_vars

\* only the first start was made, nobody stopped it, its child ran, exited
\* with a non-zero code while tracked, and the error box was shown once
C10_Witness ==
  /\ stops = 0
  /\ \A c \in Calls : c # 1 => call[c].pc = "idle"
  /\ call[1].pc \in {"healthFetch", "healthSleep", "voices", "resolved"}
  /\ proc[1] = Gone
  /\ currentProcess = NoProcess
  /\ dialogs = 1

\* the handler named ch returns in this step
Answers(ch) == query'.channel = ch /\ query' # query

\* C11: when no managed process is tracked, getStatus reports running,
\* ready, the engine and no pid if the external detector finds a healthy
\* instance of the engine, and not running, not ready, no engine otherwise.
C11_StatusOfUntracked ==
  [][(Answers("tts:getStatus") /\ currentProcess = NoProcess)
       => query'.result =
            IF Listener(proc, external) = "healthy"
            THEN [running |-> TRUE, ready |-> TRUE, engine |-> "chatterbox",
                  pid |-> NoProcess]
            ELSE [running |-> FALSE, ready |-> FALSE, engine |-> NoEngine,
                  pid |-> NoProcess]]_vars

C11_Witness ==
  /\ query.channel = "tts:getStatus"
  /\ query.result.running
  /\ query.result.pid = NoProcess

SpeakAnswers == speak'.channel = "tts" /\ speak' # speak

\* C13: getStatus, getConfig, getVoices and speak never reject, whatever the
\* manager state and the HTTP outcome (connection refused, non-2xx,
\* malformed JSON body); speak returns an error carrying the HTTP status on
\* a non-2xx answer and the no-engine error when no base URL resolves.
C13_QueriesNeverReject ==
  [][/\ \A ch \in {"tts:getStatus", "tts:getConfig", "tts:getVoices"} :
          Answers(ch) => ~query'.rejected
     /\ SpeakAnswers
          => /\ ~speak'.rejected
             /\ getCurrentBaseUrl(Mgr).engine = NoEngine
                  => speak'.error = "No TTS engine running"
             /\ speak'.outcome = "HTTP status"
                  => speak'.error = "HTTP ${status}"]_vars

\* getConfig was answered although GET /voices returned a body that is not
\* JSON
C13_Witness ==
  /\ query.channel = "tts:getConfig"
  /\ query.asked.kind = "malformed"
  /\ ~query.rejected
  /\ query.result.engine = "chatterbox"

\* C14: fetchVoices never throws and never returns an empty list: it
\* returns the voice names the engine reports when the request succeeds
\* with at least one voice, and exactly the engine's default voice when the
\* request fails, the status is not a success, the body cannot be parsed or
\* the list is empty or missing.
C14_VoicesNeverEmpty ==
  (query.channel \in {"tts:getConfig", "tts:getVoices"}
     /\ query.asked # NoVoicesResp)
    => /\ ~query.rejected
       /\ query.result.voices # << >>
       /\ query.result.voices =
            IF query.asked.kind = "object" /\ query.asked.shape = "array"
               /\ Len(query.asked.voices) >= 1
            THEN query.asked.voices
            ELSE <<DefaultVoice>>
       /\ query.channel = "tts:getVoices" => query.result.error = "none"

\* the engine listed two voices and the caller received their names
C14_Witness ==
  /\ query.channel = "tts:getVoices"
  /\ query.asked.kind = "object"
  /\ Len(query.asked.voices) = 2
  /\ query.result.voices = query.asked.voices

\* C15: when the application has shut down (will-quit, directly or after
\* window-all-closed) termination was issued to the managed process, no
\* managed process is tracked, and the engine is not left alive.
C15_ShutdownKillsEngine ==
  [][(app # "quit" /\ app' = "quit")
       => /\ currentProcess' = NoProcess
          /\ \A p \in Pids : ~Alive(proc'[p])]_vars

\* C16: a startEngine call always completes, resolving or rejecting, even
\* if the engine accepts connections and never answers a health or voices
\* request.
C16_StartCompletes == InFlight(1) ~> ~InFlight(1)

C18_StartKeepsRunningEngine ==
  [][\A c \in Calls :
       (Invoked(c) /\ call'[c].engine = "chatterbox"
          /\ ~(\E d \in Calls : InFlight(d))
          /\ currentProcess # NoProcess /\ isServerReady
          /\ Alive(proc[currentProcess]))
         => UNCHANGED <<currentProcess, currentEngine, isServerReady,
                        proc>>]_vars

\* the 'exit' event of child p is handled in this step
ExitHandled(p) == proc[p].st = "exiting" /\ proc'[p].st = "gone"

\* C19: an exit event of a process that is no longer the tracked one
\* (stopped, or replaced by a later start) leaves the tracking state of the
\* newer managed process unchanged: currentProcess, currentEngine and
\* isServerReady keep their values.
C19_StaleExitIgnored ==
  [][\A p \in Pids :
       (ExitHandled(p) /\ currentProcess # NoProcess /\ currentProcess # p)
         => UNCHANGED <<currentProcess, currentEngine, isServerReady>>]_vars

\* a delayed action armed by stopCurrentEngine runs in this step
StopTimerFires ==
  \/ 0 \in sweepTimers /\ sweepTimers' = sweepTimers \ {0}
  \/ 0 \in sigkillTimers /\ sigkillTimers' = sigkillTimers \ {0}

\* C20: the delayed actions armed by stop (the kill-by-port sweep after 1 s
\* and, on POSIX, the SIGKILL after 3 s) never kill a process spawned by a
\* later start. The process tracked when such a timer fires was spawned
\* after the stop that armed it, since that stop cleared the tracking.
C20_TimersSpareNewProcess ==
  [][(StopTimerFires /\ currentProcess # NoProcess
        /\ Alive(proc[currentProcess]))
       => Alive(proc'[currentProcess])]_vars

\* the last armed SIGKILL timer fires in this step: every child that stop
\* signalled was signalled at least 3 s ago
LastSigkillTimerFires ==
  sigkillTimers = {0} /\ sigkillTimers' = {}

\* C21: on POSIX, stop sends SIGTERM to the managed process and, if that
\* same process has not exited when the 3 s grace period ends, SIGKILL is
\* sent to it.
C21_SigkillAfterGrace ==
  [][LastSigkillTimerFires
       => \A p \in Pids :
            (Alive(proc[p]) /\ proc[p].killed) => ~Alive(proc'[p])]_vars

\* C22: the termination performed by a start call's timeout path affects
\* only the process this call spawned: the process of another start call is
\* neither signalled, killed nor untracked by it.
C22_TimeoutStopsOwnProcess ==
  [][\A c \in Calls :
       RejectsWith(c, "timeout")
         => \A p \in Pids \ {c} :
              /\ proc'[p] = proc[p]
              /\ currentProcess = p => currentProcess' = p]_vars

\* C23: in every reachable state isServerReady implies that a managed
\* process is tracked and that no exit or error event of that process has
\* been handled (the health check that set the flag succeeded for it).
C23_ReadyMeansTracked ==
  isServerReady
    => /\ currentProcess # NoProcess
       /\ proc[currentProcess].st \notin {"gone", "failed"}

\* C24: every spawn of startEngine follows, in the same synchronous run,
\* cleanupOrphanProcesses (kill by binary name, then kill by port), whether
\* or not a process was tracked when start was called: when the new child
\* exists every other child has been killed or sent SIGTERM, and nothing
\* else is left listening on the engine port.
C24_CleanupBeforeSpawn ==
  [][\A c \in Calls :
       Spawns(c)
         => /\ \A p \in Pids \ {c} :
                 Alive(proc'[p])
                   => /\ platform = "posix"
                      /\ proc'[p].term
                      /\ proc'[p].srv = "down"
            /\ external' = "down"]_vars

\* the first start found nothing tracked and its cleanup removed a server
\* that had been started outside the manager
C24_Witness ==
  /\ extStarts = 1
  /\ external = "down"
  /\ stops = 0
  /\ call[1].pc = "healthFetch" /\ call[1].elapsed = 0
  /\ \A c \in Calls \ {1} : call[c].pc = "idle"
  /\ Alive(proc[1])
  /\ currentProcess = 1

\* the kill-by-port timer armed by stopCurrentEngine runs in this step
SweepFires == 0 \in sweepTimers /\ sweepTimers' = sweepTimers \ {0}

C26_HealthWait ==
  [][\A c \in Calls :
       /\ call[c].pc = "healthFetch"
            => /\ call'[c].pc \in {"healthFetch", "healthSleep", "voices"}
               /\ call'[c].pc = "voices" => isServerReady'
               /\ call'[c].pc = "healthSleep"
                    => Listener(proc, external) # "healthy"
       /\ (call[c].pc = "healthSleep"
             /\ call[c].elapsed < HealthTimeoutTicks)
            => call'[c].pc \in {"healthSleep", "healthFetch"}
       /\ RejectsWith(c, "timeout")
            => /\ call[c].pc = "healthSleep"
               /\ call[c].timer = 0
               /\ call[c].elapsed >= HealthTimeoutTicks]_vars

\* a health wait ran into its timeout
C26_Witness ==
  \E c \in Calls : call[c].pc = "rejected" /\ call[c].result = "timeout"

\* C27: the external detector returns an engine id only if the health
\* response has a success status and its payload has status 'healthy' and
\* model_loaded true; a bare 200, a 200 with model_loaded false, a
\* non-success status, a network error and a probe that exceeds the 2 s
\* timeout all yield none.
C27_DetectNeedsHealthyPayload ==
  (query.channel = "tts:getStatus" /\ query.probe # NoProbe)
    => /\ ~query.rejected
       /\ query.result.engine # NoEngine
            <=> /\ query.probe.kind = "ok"
                /\ query.probe.status = "healthy"
                /\ query.probe.model_loaded
       /\ query.result.running <=> query.result.engine = "chatterbox"

\* a 200 answer with status 'healthy' and model_loaded false was not taken
\* for an external server
C27_Witness ==
  /\ query.channel = "tts:getStatus"
  /\ query.probe.kind = "ok"
  /\ query.probe.status = "healthy"
  /\ ~query.probe.model_loaded
  /\ ~query.result.running

\* C28: a healthy external instance that getStatus() reports as running
\* while no managed process is tracked is terminated by the next stop() and
\* by the next start(E): after either call nothing listens on the engine's
\* port any more.
Adopted ==
  /\ query.channel = "tts:getStatus"
  /\ query.probe # NoProbe
  /\ query.result.running

C28_StopAndStartKillExternal ==
  [][(/\ StopCalled \/ \E c \in Calls : Invoked(c)
      /\ Adopted
      /\ currentProcess = NoProcess
      /\ external = "healthy")
       => /\ external' = "down"
          /\ Listener(proc', external') = "down"]_vars

\* the external instance was reported as running, then a start that found
\* no engine binary and spawned nothing left the port without a listener
C28_Witness ==
  /\ Adopted
  /\ extStarts = 1
  /\ external = "down"
  /\ stops = 0
  /\ call[1].pc = "rejected"
  /\ proc[1].st = "unborn"

\* C29: the 'stopped unexpectedly' error box is never shown for the exit of
\* a process that the manager ended through stop() or through the stop that
\* start() performs, whatever exit code the forced kill produces.
C29_NoDialogForOwnStop ==
  [][\A p \in Pids :
       (ExitHandled(p) /\ proc[p].byStop) => dialogs' = dialogs]_vars

\* C30: at every point where control returns to the event loop,
\* currentEngine is non-null if and only if currentProcess is non-null, for
\* every interleaving of start, stop, timers and process exit/error events.
C30_EngineIffProcess ==
  (currentEngine # NoEngine) <=> (currentProcess # NoProcess)

\* a second child is tracked with its engine id after the first child's
\* exit event was handled and a stop call was made
C30_Witness ==
  /\ currentProcess = 2
  /\ currentEngine = "chatterbox"
  /\ proc[1].st = "gone"
  /\ stops = 1

\* C31: each successful speak call persists its audio to a uniquely named
\* temporary file: any two successful speak calls, also concurrent ones
\* whose responses arrive at the same timestamp, return different audio
\* references, and each reference yields the bytes returned for that call.
Succeeded(k) == speakCalls[k].pc = "returned" /\ speakCalls[k].result.success

C31_UniqueAudioFiles ==
  /\ \A j, k \in SpeakCalls :
       (j # k /\ Succeeded(j) /\ Succeeded(k))
         => speakCalls[j].result.audioUrl # speakCalls[k].result.audioUrl
  /\ \A k \in SpeakCalls :
       Succeeded(k)
         => LET name == ServedFile(speakCalls[k].result.audioUrl)
            IN name \in DOMAIN tempFiles /\ tempFiles[name] = speakCalls[k].bytes

\* C32: listInstalledEngines, getStatus, getConfig, getBaseUrl and
\* fetchVoices are read-only with respect to the manager: in any state they
\* leave currentProcess, currentEngine and isServerReady unchanged and
\* never spawn or kill a process.
ReadOnlyChannels ==
  {"tts:getEngines", "tts:getStatus", "tts:getConfig", "tts:getVoices"}

C32_QueriesReadOnly ==
  [][((\E ch \in ReadOnlyChannels : Answers(ch)) \/ SpeakAnswers)
       => UNCHANGED <<currentProcess, currentEngine, isServerReady, proc,
                      external, sweepTimers, sigkillTimers>>]_vars

\* a config was returned for a tracked, ready engine, which is still
\* tracked, ready and alive
C32_Witness ==
  /\ query.channel = "tts:getConfig"
  /\ ~query.rejected
  /\ query.result.engine = "chatterbox"
  /\ currentProcess = 1
  /\ currentEngine = "chatterbox"
  /\ isServerReady
  /\ Alive(proc[1])

\* C33: performAssetSync emits status 'checking' first and then exactly
\* one of two continuations: 'skip' with result {success: true, skipped:
\* true} and no progress callbacks, or 'syncing' followed by all progress
\* callbacks (two per required asset) and then exactly one terminal status,
\* 'complete' if and only if every required asset was stored and 'error'
\* otherwise.
RequiredCount == Len(RequiredAssets(sync.manifest))

AllStored ==
  /\ Len(sync.outcomes) = RequiredCount
  /\ \A j \in 1..Len(sync.outcomes) : sync.outcomes[j] = "stored"

C33_StatusProtocol ==
  /\ sync.pc \in {"manifest", "cached"}
       => sync.statuses = <<"checking">> /\ sync.progress = << >>
  /\ sync.pc \in {"asset", "saving"}
       => /\ sync.statuses = <<"checking", "syncing">>
          /\ Len(sync.progress) = 2 * Len(sync.outcomes) + (IF sync.pc = "asset" THEN 1 ELSE 0)
          /\ sync.pc = "saving" => AllStored
  /\ sync.pc = "done"
       => \/ /\ sync.statuses = <<"checking", "skip">>
             /\ sync.result.success /\ sync.result.skipped
             /\ sync.progress = << >>
          \/ /\ Len(sync.statuses) = 3
             /\ SubSeq(sync.statuses, 1, 2) = <<"checking", "syncing">>
             /\ sync.statuses[3] \in {"complete", "error"}
             /\ sync.statuses[3] = "complete" <=> AllStored
             /\ Len(sync.progress) = 2 * RequiredCount
             /\ ~sync.result.skipped
             /\ sync.result.success <=> AllStored

\* a sync of two required assets ended with 'error' after one asset was
\* stored and one was not
C33_Witness ==
  /\ sync.pc = "done"
  /\ sync.statuses = <<"checking", "syncing", "error">>
  /\ sync.result.downloaded = 1
  /\ sync.result.failed = 1
  /\ Len(sync.progress) = 4

\* C34: downloadAssets records the manifest's assetPackVersion as the
\* cached version if and only if no required asset failed; after any
\* failure the cached version is left unchanged, so a later checkSyncNeeded
\* against the same manifest still reports needed == true.
Downloaded ==
  /\ sync.pc = "done"
  /\ Len(sync.statuses) = 3
  /\ sync.statuses[2] = "syncing"

C34_VersionIffNoFailure ==
  Downloaded
    => /\ sync.saved <=> sync.result.failed = 0
       /\ sync.saved => cachedVersion = sync.manifest.assetPackVersion
       /\ sync.result.failed > 0
            => /\ cachedVersion = sync.before
               /\ checkSyncNeeded(sync.manifest, cachedVersion).needed

\* C34, amended: downloadAssets writes the cached version only if no
\* required asset failed, and then writes the manifest's version; the write
\* can fail, which is only logged and leaves the cached version as it was.
\* After any failure the cached version is unchanged, so a later
\* checkSyncNeeded against the same manifest reports needed == true unless
\* the cached version already was the manifest's version.
C34_VersionOnlyIfNoFailure ==
  Downloaded
    => /\ sync.saved => sync.result.failed = 0
       /\ sync.saved => cachedVersion = sync.manifest.assetPackVersion
       /\ ~sync.saved => cachedVersion = sync.before
       /\ (sync.result.failed > 0 /\ sync.before # sync.manifest.assetPackVersion)
            => checkSyncNeeded(sync.manifest, cachedVersion).needed

\* a sync against a new manifest version stored one asset and failed on
\* another, and the version cached by the sync before is still the cached one
C34_Witness ==
  /\ Downloaded
  /\ sync.result.failed = 1
  /\ sync.result.downloaded = 1
  /\ sync.before = "v1"
  /\ sync.manifest.assetPackVersion = "v2"
  /\ cachedVersion = "v1"

\* C35: if the manifest cannot be fetched (network error or non-success
\* status), checkSyncNeeded reports needed == false and performAssetSync
\* returns {success: true, downloaded: 0, failed: 0, skipped: true} without
\* downloading anything and without changing the cached version.
ManifestFails ==
  /\ sync.pc = "manifest"
  /\ sync'.pc # "manifest"
  /\ ~sync'.fetched

C35_OfflineSkips ==
  /\ \A resp \in ManifestResponses :
       resp.kind # "ok"
         => \A cached \in Versions \cup {NoVersion} :
              ~checkSyncNeeded(fetchManifest(resp), cached).needed
  /\ [][ManifestFails
          => /\ sync'.pc = "done"
             /\ sync'.statuses = <<"checking", "skip">>
             /\ sync'.result = SkipResult
             /\ sync'.progress = << >>
             /\ sync'.outcomes = << >>
             /\ cachedVersion' = cachedVersion]_vars

\* the second sync found no manifest and skipped, and the version cached
\* by the first sync is still there
C35_Witness ==
  /\ syncs = 2
  /\ sync.pc = "done"
  /\ ~sync.fetched
  /\ sync.result = SkipResult
  /\ cachedVersion = "v1"

\* C36: in every progress callback of downloadAssets, completed + failed +
\* remaining equals the number of required assets and downloadedBytes
\* equals the sum of the sizes of the completed assets (never more than
\* totalBytes); the returned result has downloaded + failed equal to the
\* number of required assets.

\* the assets whose script had returned true when callback n was made: the
\* callbacks 2j and 2j + 1 follow the j-th asset
CompletedBefore(n) ==
  LET required == RequiredAssets(sync.manifest)
      done == {j \in 1..Len(sync.outcomes) : j <= n \div 2 /\ sync.outcomes[j] = "stored"}
  IN SelectSeq([j \in 1..Len(required) |-> [id |-> j, size |-> required[j].size]],
               LAMBDA a : a.id \in done)

C36_ProgressAccounts ==
  /\ \A n \in 1..Len(sync.progress) :
       LET p == sync.progress[n]
       IN /\ p.completed + p.failed + p.remaining = RequiredCount
          /\ p.completed = Len(CompletedBefore(n))
          /\ p.downloadedBytes = SumSizes(CompletedBefore(n))
          /\ p.downloadedBytes <= p.totalBytes
          /\ p.totalBytes = SumSizes(RequiredAssets(sync.manifest))
  /\ Downloaded => sync.result.downloaded + sync.result.failed = RequiredCount

\* the last callback of a download of two assets, the first stored and the
\* second failed: 2 of 3 bytes, nothing remaining
C36_Witness ==
  /\ Downloaded
  /\ Len(sync.progress) = 4
  /\ sync.outcomes[1] = "stored"
  /\ sync.outcomes[2] # "stored"
  /\ sync.progress[4].downloadedBytes = 2
  /\ sync.progress[4].totalBytes = 3
  /\ sync.progress[4].remaining = 0

====
